---- MODULE Spec2Model ----
(***************************************************************************)
(* Whanos build orchestrator (src/orchestrator/main.py): one run of main() *)
(* as a state machine.  Texts are sequences of atoms: an atom is one       *)
(* character of a repository file ("a", "\n", "\r") or a fixed fragment    *)
(* of the generated Dockerfile, so that text equality is equality of       *)
(* sequences.                                                              *)
(***************************************************************************)
EXTENDS Integers, Sequences, FiniteSets, TLC

\* ------------------------------------------------------------ bounds ----
\* longest override / append file, in characters, in a whole run of main()
MaxLen == 1
\* longest override / append file, in characters, when only the part of
\* main() that prepares the descriptor is run
MaxDescriptorLen == 3
\* longest image reference, in characters, in the runs that exercise the
\* registry of an image reference
MaxImageLen == 3
\* longest deployment.ports list of a whanos.yml handed to the manifest
\* renderer
MaxPorts == 2

\* ------------------------------------------------------------- texts ----
LF == "\n"
CR == "\r"
\* characters a repository file is made of: an ordinary one and two
\* whitespace characters that are also line terminators
Chars == {"a", LF, CR}
Whitespace == {" ", "\t", LF, CR}

\* Python's None where a name (a profile, a path) is expected, and where a
\* text or a list is expected
NoneVal == "None"
NoneText == <<"<None>">>

RECURSIVE TextsOfLen(_)
TextsOfLen(n) ==
  IF n = 0 THEN {<<>>}
  ELSE {<<c>> \o t : c \in Chars, t \in TextsOfLen(n - 1)}

TextsUpTo(n) == UNION {TextsOfLen(k) : k \in 0..n}

\* what an override / append file may hold
FileTexts == TextsUpTo(MaxLen)
DescriptorTexts == TextsUpTo(MaxDescriptorLen)

\* text-mode decoding of a file (Path.read_text -> open(newline=None)):
\* universal newlines turn "\r\n" and a lone "\r" into "\n"
RECURSIVE read_text(_)
read_text(raw) ==
  IF raw = <<>> THEN <<>>
  ELSE IF Head(raw) = CR
       THEN IF Len(raw) >= 2 /\ raw[2] = LF
            THEN <<LF>> \o read_text(SubSeq(raw, 3, Len(raw)))
            ELSE <<LF>> \o read_text(Tail(raw))
       ELSE <<Head(raw)>> \o read_text(Tail(raw))

\* text-mode encoding of tmp.write on a file opened with "w": every "\n"
\* becomes os.linesep, which is "\n" on the POSIX hosts docker runs on
linesep == <<LF>>

RECURSIVE write_text(_)
write_text(s) ==
  IF s = <<>> THEN <<>>
  ELSE (IF Head(s) = LF THEN linesep ELSE <<Head(s)>>) \o write_text(Tail(s))

RECURSIVE lstrip(_)
lstrip(s) ==
  IF s # <<>> /\ Head(s) \in Whitespace THEN lstrip(Tail(s)) ELSE s

RECURSIVE rstrip(_)
rstrip(s) ==
  IF s # <<>> /\ s[Len(s)] \in Whitespace
  THEN rstrip(SubSeq(s, 1, Len(s) - 1))
  ELSE s

\* str.lstrip() used where str.strip() is meant
strip_left_only(s) == lstrip(s)

\* str.strip()
strip(s) == rstrip(lstrip(s))

\* sep.join(items), items a sequence of texts
RECURSIVE join(_, _)
join(sep, items) ==
  IF items = <<>> THEN <<>>
  ELSE IF Len(items) = 1 THEN items[1]
  ELSE items[1] \o sep \o join(sep, Tail(items))

\* ---------------------------------------------------------- profiles ----
\* LANGUAGE_CONFIGS, in insertion order
Languages == <<"c", "java", "javascript", "python", "befunge">>

LanguageSet == {Languages[i] : i \in 1..Len(Languages)}

\* the path each detector checks with path_exists
Marker(lang) ==
  CASE lang = "c"          -> "Makefile"
    [] lang = "java"       -> "pom.xml"
    [] lang = "javascript" -> "package.json"
    [] lang = "python"     -> "requirements.txt"
    [] lang = "befunge"    -> "app/main.bf"

Markers == {Marker(l) : l \in LanguageSet}

OverridePath == "whanos/Dockerfile.override"
AppendPath == "whanos/Dockerfile.append"

\* the paths of a repository whose presence main() looks at before the
\* test stage
RepoPaths == Markers \cup {OverridePath, AppendPath}

\* path_exists(repo_root / p): p exists or is a symlink
path_exists(repo, p) == p \in repo

detector(lang, repo) == path_exists(repo, Marker(lang))

base_image_env(lang) ==
  CASE lang = "c"          -> "WHANOS_BASE_IMAGE_C"
    [] lang = "java"       -> "WHANOS_BASE_IMAGE_JAVA"
    [] lang = "javascript" -> "WHANOS_BASE_IMAGE_JAVASCRIPT"
    [] lang = "python"     -> "WHANOS_BASE_IMAGE_PYTHON"
    [] lang = "befunge"    -> "WHANOS_BASE_IMAGE_BEFUNGE"

default_base_image(lang) ==
  CASE lang = "c"          -> <<"whanos-c:latest">>
    [] lang = "java"       -> <<"whanos-java:latest">>
    [] lang = "javascript" -> <<"whanos-javascript:latest">>
    [] lang = "python"     -> <<"whanos-python:latest">>
    [] lang = "befunge"    -> <<"whanos-befunge:latest">>

\* an instruction is a text of two atoms, its keyword and the rest of the
\* line
docker_steps_c ==
  << <<"COPY", " . .">>, <<"RUN", " make">>,
     <<"CMD", " [\"./compiled-app\"]">> >>

docker_steps_java ==
  << <<"COPY", " . .">>, <<"RUN", " mvn -DskipTests package">>,
     <<"CMD", " [\"java\", \"-jar\", \"target/app.jar\"]">> >>

docker_steps_javascript ==
  << <<"COPY", " package*.json ./">>,
     <<"RUN", " npm ci --omit=dev || npm install --production">>,
     <<"COPY", " . .">>, <<"CMD", " [\"node\", \".\"]">> >>

\* a variant that declares the entry point only when requirements.txt exists
docker_steps_python_cmd_in_branch(repo) ==
  (IF path_exists(repo, "requirements.txt")
   THEN << <<"COPY", " requirements.txt ./">>,
           <<"RUN", " pip install --no-cache-dir -r requirements.txt">>,
           <<"COPY", " . .">>, <<"CMD", " [\"python\", \"-m\", \"app\"]">> >>
   ELSE << <<"#",
             " requirements.txt missing; skipping dependency installation">>,
           <<"COPY", " . .">> >>)

docker_steps_python(repo) ==
  (IF path_exists(repo, "requirements.txt")
   THEN << <<"COPY", " requirements.txt ./">>,
           <<"RUN", " pip install --no-cache-dir -r requirements.txt">> >>
   ELSE << <<"#",
             " requirements.txt missing; skipping dependency installation">>
        >>)
  \o << <<"COPY", " . .">>, <<"CMD", " [\"python\", \"-m\", \"app\"]">> >>

docker_steps_befunge ==
  << <<"COPY", " . .">>, <<"CMD", " [\"befunge93\", \"app/main.bf\"]">> >>

dockerfile_instructions(lang, repo) ==
  CASE lang = "c"          -> docker_steps_c
    [] lang = "java"       -> docker_steps_java
    [] lang = "javascript" -> docker_steps_javascript
    [] lang = "python"     -> docker_steps_python(repo)
    [] lang = "befunge"    -> docker_steps_befunge

\* --------------------------------------------------------- detection ----
\* the languages whose detector holds, in LANGUAGE_CONFIGS order
matches(repo) == SelectSeq(Languages, LAMBDA l : detector(l, repo))

\* detect_language with the multiple-match test off by one (len(matches) > 0)
detect_language_off_by_one(repo) ==
  LET m == matches(repo) IN
  IF m = <<>>
  THEN [ok |-> FALSE, config |-> NoneVal, kind |-> "no_language",
        langs |-> <<>>]
  ELSE [ok |-> FALSE, config |-> NoneVal, kind |-> "multiple_languages",
        langs |-> join(<<", ">>, [i \in 1..Len(m) |-> <<m[i]>>])]

\* detect_language resolving several matches by table order
detect_language_by_priority(repo) ==
  LET m == matches(repo) IN
  IF m = <<>>
  THEN [ok |-> FALSE, config |-> NoneVal, kind |-> "no_language",
        langs |-> <<>>]
  ELSE [ok |-> TRUE, config |-> m[1], kind |-> NoneVal, langs |-> <<>>]

\* detect_language: the matched profile, or the OrchestratorError raised.
\* langs is the comma-separated list the "multiple" message carries.
detect_language(repo) ==
  LET m == matches(repo) IN
  IF m = <<>>
  THEN [ok |-> FALSE, config |-> NoneVal, kind |-> "no_language",
        langs |-> <<>>]
  ELSE IF Len(m) > 1
  THEN [ok |-> FALSE, config |-> NoneVal, kind |-> "multiple_languages",
        langs |-> join(<<", ">>, [i \in 1..Len(m) |-> <<m[i]>>])]
  ELSE [ok |-> TRUE, config |-> m[1], kind |-> NoneVal, langs |-> <<>>]

\* ------------------------------------------------------- environment ----
\* a variable missing from os.environ
Unset == <<"<unset>">>

\* values the base-image variable of a profile may hold
BaseImageValues == {Unset, <<>>, <<"custom-base:1">>}

\* values WHANOS_REGISTRY_USERNAME / WHANOS_REGISTRY_PASSWORD may hold
UsernameValues == {Unset, <<>>, <<"user">>}
PasswordValues == {Unset, <<>>, <<"secret">>}

\* os.environ.get(name, default), value being what os.environ holds
environ_get(value, default) == IF value = Unset THEN default ELSE value

\* resolve_base_image(config), value being what os.environ holds for
\* config.base_image_env
resolve_base_image(lang, value) ==
  environ_get(value, default_base_image(lang))

\* a variant that only tells None from a value ("is not None")
truthy_is_not_none(x) == x # NoneText

\* Python truthiness of an Optional[str] / Optional[list]
truthy(x) == x # NoneText /\ x # <<>>

\* ------------------------------------------------------ test commands ----
\* what reading and parsing package.json can give
PackageJsonStates ==
  {"test_script", "no_test_script", "malformed", "missing", "raises"}

PytestMarkers == {"tests", "test", "pytest.ini"}

Raises == <<"<raises>">>

test_command_none == NoneText

test_command_java == <<"mvn", "test">>

\* "raises": json.loads gave a non-mapping, or read_text raised something
\* other than FileNotFoundError / JSONDecodeError
test_command_javascript(package_json) ==
  CASE package_json = "test_script"    ->
         <<"npm", "test", "--", "--watch=false">>
    [] package_json = "no_test_script" -> NoneText
    [] package_json = "malformed"      -> NoneText
    [] package_json = "missing"        -> NoneText
    [] package_json = "raises"         -> Raises

test_command_python(present) ==
  IF \E marker \in PytestMarkers : marker \in present
  THEN <<"python", "-m", "pytest">>
  ELSE NoneText

\* what config.test_command reads from the repository: the state of
\* package.json, the pytest markers present, or nothing
TestInputs(lang) ==
  CASE lang = "javascript" -> {{s} : s \in PackageJsonStates}
    [] lang = "python"     -> SUBSET PytestMarkers
    [] OTHER               -> {{}}

test_command(lang, input) ==
  CASE lang = "c"          -> test_command_none
    [] lang = "java"       -> test_command_java
    [] lang = "javascript" ->
         test_command_javascript(CHOOSE s \in input : TRUE)
    [] lang = "python"     -> test_command_python(input)
    [] lang = "befunge"    -> test_command_none

\* -------------------------------------------------------- descriptor ----
BeginMarker == <<"# --- Begin repository-provided customizations ---">>
EndMarker == <<"# --- End repository-provided customizations ---">>

\* render_dockerfile(config, repo_root, extra_snippet=...), base_env being
\* the value os.environ holds for the profile's base-image variable
render_dockerfile(lang, repo, base_env, extra_snippet) ==
  LET base_image == resolve_base_image(lang, base_env)
      instructions ==
        << <<"# Generated by Whanos orchestrator. Do not edit.">>,
           <<"FROM ">> \o base_image,
           <<"WORKDIR /app">> >>
        \o dockerfile_instructions(lang, repo)
      customized ==
        IF truthy(extra_snippet)
        THEN instructions
             \o << <<>>, BeginMarker, strip(extra_snippet), EndMarker >>
        ELSE instructions
  IN join(<<LF>>, customized) \o <<LF>>

\* locate_customizations(repo_root)
locate_customizations(repo) ==
  [override |-> IF path_exists(repo, OverridePath) THEN OverridePath
                ELSE NoneVal,
   append   |-> IF path_exists(repo, AppendPath) THEN AppendPath
                ELSE NoneVal]

\* --------------------------------------------------------- registry ----
\* image_ref.split("/")[0]
RECURSIVE first_segment(_)
first_segment(s) ==
  IF s = <<>> \/ Head(s) = "/" THEN <<>>
  ELSE <<Head(s)>> \o first_segment(Tail(s))

contains(s, c) == \E i \in 1..Len(s) : s[i] = c

\* a variant that looks for "." or ":" anywhere in the reference
extract_registry_whole_reference(image_ref) ==
  IF ~contains(image_ref, "/") THEN NoneText
  ELSE IF contains(image_ref, ".") \/ contains(image_ref, ":")
  THEN first_segment(image_ref)
  ELSE NoneText

\* extract_registry(image_ref)
extract_registry(image_ref) ==
  IF ~contains(image_ref, "/") THEN NoneText
  ELSE LET registry_candidate == first_segment(image_ref) IN
       IF contains(registry_candidate, ".") \/ contains(registry_candidate, ":")
       THEN registry_candidate
       ELSE NoneText

\* args.registry or extract_registry(args.image)
effective_registry(a) ==
  IF truthy(a.registry) THEN a.registry ELSE extract_registry(a.image)

\* ------------------------------------------------------------- inputs ----
\* --image values: no slash; a slash after a plain segment; a slash after
\* a host-like segment
Images ==
  { <<"a", ":", "1">>, <<"l", "/", "a">>, <<"r", ".", "i", "/", "a">> }

RegistryArgs == {NoneText, <<"h", ".", "x">>}

BuildArgLists == {<<"KEY=value">>}

Args ==
  [image : Images, registry : RegistryArgs, skip_tests : BOOLEAN,
   no_push : BOOLEAN, build_args : BuildArgLists]

\* command lines for the runs that exercise the registry of an image
\* reference: every reference of at most MaxImageLen characters, --registry
\* absent, empty or a host, tests skipped and no push
ImageChars == {"a", "/", ".", ":"}

RECURSIVE ImagesOfLen(_)
ImagesOfLen(n) ==
  IF n = 0 THEN {<<>>}
  ELSE {<<c>> \o t : c \in ImageChars, t \in ImagesOfLen(n - 1)}

ImageRefs == UNION {ImagesOfLen(k) : k \in 1..MaxImageLen}

RegistryRunArgs ==
  [image : ImageRefs, registry : RegistryArgs \cup {<<>>},
   skip_tests : {TRUE}, no_push : {TRUE}, build_args : BuildArgLists]

\* how a subprocess.run(..., check=True) call can end: exit status 0, a
\* non-zero exit status (CalledProcessError), or the executable cannot be
\* started (OSError)
ProcessOutcomes == {"ok", "nonzero", "oserror"}

TmpPath == "tmp.Dockerfile"
RepoRoot == "repo_root"

\* -------------------------------------------------------------- state ----
\* ----------------------------------------- manifest renderer: inputs ----
\* port numbers a whanos.yml names
PortNumbers == {80, 443}

\* an item of deployment.ports, by what int() makes of it: an integer, a
\* numeric string, a non-numeric string, null, .inf
PortItems ==
  [t : {"int"}, v : PortNumbers]
    \cup {[t |-> "numeric_str", v |-> 80], [t |-> "word", v |-> 0],
          [t |-> "null", v |-> 0], [t |-> "inf", v |-> 0]}

RECURSIVE PortListsOfLen(_)
PortListsOfLen(n) ==
  IF n = 0 THEN {<<>>}
  ELSE {<<i>> \o l : i \in PortItems, l \in PortListsOfLen(n - 1)}

PortLists == UNION {PortListsOfLen(k) : k \in 0..MaxPorts}

\* what deployment.ports holds: the key is absent (or null), a falsy value
\* that is no list (0, ""), a string or a mapping, or a list
PortsValues ==
  [t : {"absent", "falsy", "str"}, items : {<<>>}]
    \cup [t : {"list"}, items : PortLists]

\* what deployment.replicas holds: nothing, an integer (2), or a word
ReplicasValues == {"absent", "int", "word"}

NoDeployment == [t |-> "absent", ports |-> [t |-> "absent", items |-> <<>>],
                 replicas |-> "absent"]

\* what the key deployment of whanos.yml holds: nothing (or null), a value
\* that is no mapping, or a mapping
DeploymentValues ==
  {NoDeployment, [NoDeployment EXCEPT !.t = "not_mapping"]}
    \cup [t : {"mapping"}, ports : PortsValues, replicas : ReplicasValues]

\* the configuration file: it does not exist, it is no YAML, it is empty
\* (or holds a falsy value), it holds a list or a scalar, it holds a mapping
RootValues == {"missing", "yaml_error", "empty", "not_mapping", "mapping"}

\* --deployer-service-account
ServiceAccounts == {<<"j", "/", "d">>, <<"j">>, <<"/", "d">>}

\* parse_args() of the renderer; nodeport_base is the default of
\* --nodeport-base
NodeportBase == 30000

RenderArgs ==
  [expose_mode : {"ingress", "clusterip", "nodeport"},
   service_type : {"ClusterIP", "NodePort", "LoadBalancer"},
   domain : {NoneText, <<>>, <<"d.x">>},
   tls_secret : {NoneText, <<"tls">>},
   output_dir : {NoneText, <<"out">>},
   deployer_service_account : ServiceAccounts]

DefaultRenderArgs ==
  [expose_mode |-> "ingress", service_type |-> "ClusterIP",
   domain |-> NoneText, tls_secret |-> NoneText, output_dir |-> NoneText,
   deployer_service_account |-> <<"j", "/", "d">>]

\* ------------------------------------------------------------- state ----
VARIABLES
  pc,                 \* where main() is
  args,               \* parse_args(argv)
  repo,               \* the paths of RepoPaths present under repo_root
  config,             \* the detected profile (its name)
  customizations,     \* locate_customizations(repo_root)
  raw,                \* the bytes of the override / append file main() read
  dockerfile_content, \* the text handed to tmp.write
  environ,            \* the os.environ values read so far
  test_input,         \* what config.test_command read from the repository
  tmp,                \* the NamedTemporaryFile: created, written, exists,
                      \* content
  invocations,        \* the subprocess.run calls made so far, in order
  pending,            \* the exception raised inside the try block, if any
  unlink_calls,       \* how many times tmp_path.unlink ran
  registry,           \* main's registry, once line 433 has computed it
  error,              \* the exception main() ended with
  result              \* "running", "success" (return 0) or "failure"

\* the state of one run of the manifest renderer
\* (src/kubernetes/render_deployment.py)
VARIABLES
  render_pc,          \* where main() / render() of the renderer is
  render_args,        \* its parse_args()
  root,               \* what yaml.safe_load gave for the configuration file
  deployment_cfg,     \* extract_deployment(config)
  replicas,           \* render's replicas
  ports,              \* render's ports: sorted, without duplicates
  manifests,          \* render's list of (filename, manifest)
  emitted,            \* the filenames written or printed so far, in order
  render_error        \* the exception the renderer ended with

main_vars ==
  <<pc, args, repo, config, customizations, raw, dockerfile_content, environ,
    test_input, tmp, invocations, pending, unlink_calls, registry, error,
    result>>

render_vars ==
  <<render_pc, render_args, root, deployment_cfg, replicas, ports, manifests,
    emitted, render_error>>

vars == <<main_vars, render_vars>>

Unread == <<"<unread>">>

NoError == [type |-> NoneVal, kind |-> NoneVal, detail |-> <<>>]

Exception(type, kind, detail) ==
  [type |-> type, kind |-> kind, detail |-> detail]

\* the state the renderer starts in, for the given command lines
RenderStart(arg_set) ==
  /\ render_pc = "start"
  /\ render_args \in arg_set
  /\ root = NoneVal
  /\ deployment_cfg = NoDeployment
  /\ replicas = 0
  /\ ports = <<>>
  /\ manifests = <<>>
  /\ emitted = <<>>
  /\ render_error = [type |-> NoneVal, message |-> NoneVal]

\* the state main() starts in, for the given command lines and repositories
MainStart(arg_set, repos) ==
  /\ pc = "start"
  /\ args \in arg_set
  /\ repo \in repos
  /\ config = NoneVal
  /\ customizations = [override |-> NoneVal, append |-> NoneVal]
  /\ raw = [override |-> NoneText, append |-> NoneText]
  /\ dockerfile_content = NoneText
  /\ environ = [base_image |-> Unread, username |-> Unread,
                password |-> Unread]
  /\ test_input = {}
  /\ tmp = [created |-> FALSE, written |-> FALSE, exists |-> FALSE,
            content |-> NoneText]
  /\ invocations = <<>>
  /\ pending = NoError
  /\ unlink_calls = 0
  /\ registry = Unread
  /\ error = NoError
  /\ result = "running"

\* a run of the orchestrator; the renderer is a program of its own and is
\* not run
InitWith(arg_set, repos) ==
  /\ MainStart(arg_set, repos)
  /\ RenderStart({DefaultRenderArgs})

Init == InitWith(Args, SUBSET RepoPaths)

\* the values a read of os.environ[name] can give: what an earlier read
\* gave, else any value the variable may hold
EnvRead(name, values) ==
  IF environ[name] = Unread THEN values ELSE {environ[name]}

\* an exception leaves main() outside the try block: no finally clause runs
RaiseOutside(exc) ==
  /\ pc' = "failed"
  /\ error' = exc
  /\ result' = "failure"

\* an exception inside the try block: control goes to the finally clause
RaiseInside(exc) ==
  /\ pc' = "finally"
  /\ pending' = exc

\* subprocess.run(command, check=True) started; status becomes how it ended
Invocation(cmd, argv, stdin) ==
  [cmd |-> cmd, argv |-> argv, stdin |-> stdin, status |-> "running"]

\* how run_command / docker_login turn the end of the process into an
\* exception
ProcessError(cmd, outcome) ==
  IF outcome = "nonzero"
  THEN Exception("OrchestratorError", cmd, <<>>)
  ELSE Exception("OSError", cmd, <<>>)

\* ------------------------------------------------------------ actions ----
\* main: repo_root.is_dir(); a repository that holds a path is a directory
CheckRepo ==
  /\ pc = "start"
  /\ \E is_dir \in (IF repo = {} THEN BOOLEAN ELSE {TRUE}) :
       IF is_dir
       THEN /\ pc' = "detect"
            /\ UNCHANGED <<error, result>>
       ELSE RaiseOutside(Exception("OrchestratorError", "repo_missing", <<>>))
  /\ UNCHANGED <<render_vars, args, repo, config, customizations, raw,
                 dockerfile_content, environ, test_input, tmp, invocations,
                 pending, unlink_calls, registry>>

\* main going on with the first profile of the table when detection fails
DetectWithFallback ==
  /\ pc = "detect"
  /\ LET r == detect_language(repo) IN
       config' = IF r.ok THEN r.config ELSE Languages[1]
  /\ pc' = "locate"
  /\ UNCHANGED <<render_vars, args, repo, customizations, raw,
                 dockerfile_content, environ, test_input, tmp, invocations,
                 pending, unlink_calls, registry, error, result>>

\* main: config = detect_language(repo_root)
Detect ==
  /\ pc = "detect"
  /\ LET r == detect_language(repo) IN
       IF r.ok
       THEN /\ config' = r.config
            /\ pc' = "locate"
            /\ UNCHANGED <<error, result>>
       ELSE /\ RaiseOutside(Exception("OrchestratorError", r.kind, r.langs))
            /\ UNCHANGED config
  /\ UNCHANGED <<render_vars, args, repo, customizations, raw,
                 dockerfile_content, environ, test_input, tmp, invocations,
                 pending, unlink_calls, registry>>

\* main: customizations = locate_customizations(repo_root)
Locate ==
  /\ pc = "locate"
  /\ customizations' = locate_customizations(repo)
  /\ pc' = "content"
  /\ UNCHANGED <<render_vars, args, repo, config, raw, dockerfile_content,
                 environ, test_input, tmp, invocations, pending, unlink_calls,
                 registry, error, result>>

\* a variant that reads the append file before it looks at the override
LoadOverrideAfterAppend(texts) ==
  /\ pc = "content"
  /\ customizations.override # NoneVal
  /\ \/ /\ customizations.append # NoneVal
        /\ RaiseOutside(Exception("OSError", "read_append", <<>>))
        /\ UNCHANGED <<raw, dockerfile_content>>
     \/ \E bytes \in texts :
          /\ raw' = [raw EXCEPT !.override = bytes]
          /\ dockerfile_content' = read_text(bytes)
          /\ pc' = "mktemp"
          /\ UNCHANGED <<error, result>>
  /\ UNCHANGED <<render_vars, args, repo, config, customizations, environ,
                 test_input, tmp, invocations, pending, unlink_calls,
                 registry>>

\* main: dockerfile_content = dockerfile_override.read_text(); the read can
\* raise (a dangling symlink, a directory, undecodable bytes)
LoadOverride(texts) ==
  /\ pc = "content"
  /\ customizations.override # NoneVal
  /\ \/ \E bytes \in texts :
          /\ raw' = [raw EXCEPT !.override = bytes]
          /\ dockerfile_content' = read_text(bytes)
          /\ pc' = "mktemp"
          /\ UNCHANGED <<error, result>>
     \/ /\ RaiseOutside(Exception("OSError", "read_override", <<>>))
        /\ UNCHANGED <<raw, dockerfile_content>>
  /\ UNCHANGED <<render_vars, args, repo, config, customizations, environ,
                 test_input, tmp, invocations, pending, unlink_calls,
                 registry>>

\* main: append_snippet = dockerfile_append.read_text() if dockerfile_append
\* else None; dockerfile_content = render_dockerfile(...)
Render(texts) ==
  /\ pc = "content"
  /\ customizations.override = NoneVal
  /\ \/ \E bytes \in (IF customizations.append # NoneVal THEN texts
                      ELSE {NoneText}),
           base_env \in EnvRead("base_image", BaseImageValues) :
          LET append_snippet ==
                IF bytes = NoneText THEN NoneText ELSE read_text(bytes)
          IN /\ raw' = [raw EXCEPT !.append = bytes]
             /\ environ' = [environ EXCEPT !.base_image = base_env]
             /\ dockerfile_content' =
                  render_dockerfile(config, repo, base_env, append_snippet)
             /\ pc' = "mktemp"
             /\ UNCHANGED <<error, result>>
     \/ /\ customizations.append # NoneVal
        /\ RaiseOutside(Exception("OSError", "read_append", <<>>))
        /\ UNCHANGED <<raw, environ, dockerfile_content>>
  /\ UNCHANGED <<render_vars, args, repo, config, customizations, test_input,
                 tmp, invocations, pending, unlink_calls, registry>>

\* main: tempfile.NamedTemporaryFile("w", delete=False, ...) creates the file
CreateTemp ==
  /\ pc = "mktemp"
  /\ \/ /\ tmp' = [created |-> TRUE, written |-> FALSE, exists |-> TRUE,
                    content |-> <<>>]
        /\ pc' = "write"
        /\ UNCHANGED <<error, result>>
     \/ /\ RaiseOutside(Exception("OSError", "mktemp", <<>>))
        /\ UNCHANGED tmp
  /\ UNCHANGED <<render_vars, args, repo, config, customizations, raw,
                 dockerfile_content, environ, test_input, invocations,
                 pending, unlink_calls, registry>>

\* main: tmp.write(dockerfile_content) and the close of the with block; an
\* OSError here (disk full) is raised before the try block is entered
WriteTemp ==
  /\ pc = "write"
  /\ \/ /\ tmp' = [tmp EXCEPT !.written = TRUE,
                               !.content = write_text(dockerfile_content)]
        /\ pc' = "test"
        /\ UNCHANGED <<error, result>>
     \/ /\ RaiseOutside(Exception("OSError", "write", <<>>))
        /\ UNCHANGED tmp
  /\ UNCHANGED <<render_vars, args, repo, config, customizations, raw,
                 dockerfile_content, environ, test_input, invocations,
                 pending, unlink_calls, registry>>

\* build_test_in_container: if skip_tests: return
TestsSkipped ==
  /\ pc = "test"
  /\ args.skip_tests
  /\ pc' = "login"
  /\ UNCHANGED <<render_vars, args, repo, config, customizations, raw,
                 dockerfile_content, environ, test_input, tmp, invocations,
                 pending, unlink_calls, registry, error, result>>

\* the command list build_test_in_container hands to run_command
test_argv(base_image, command) ==
  << <<"docker">>, <<"run">>, <<"--rm">>, <<"-v">>, <<RepoRoot, ":/app">>,
     <<"-w">>, <<"/app">>, base_image >>
  \o [i \in 1..Len(command) |-> <<command[i]>>]

\* build_test_in_container past the skip_tests check: resolve the test
\* command; none: return; else start "docker run" in the resolved base image
StartTests ==
  /\ \E input \in TestInputs(config),
        base_env \in EnvRead("base_image", BaseImageValues) :
       LET command == test_command(config, input) IN
       /\ test_input' = input
       /\ IF command = Raises
          THEN /\ RaiseInside(Exception("AttributeError", "test_command", <<>>))
               /\ UNCHANGED <<environ, invocations>>
          ELSE IF ~truthy(command)
          THEN /\ pc' = "login"
               /\ UNCHANGED <<environ, invocations, pending>>
          ELSE /\ environ' = [environ EXCEPT !.base_image = base_env]
               /\ invocations' =
                    Append(invocations,
                           Invocation("test",
                             test_argv(resolve_base_image(config, base_env),
                                       command),
                             NoneText))
               /\ pc' = "test_wait"
               /\ UNCHANGED pending
  /\ UNCHANGED <<render_vars, args, repo, config, customizations, raw,
                 dockerfile_content, tmp, unlink_calls, registry, error,
                 result>>

\* build_test_in_container without the skip_tests check
RunTestsAlways ==
  /\ pc = "test"
  /\ StartTests

\* a variant that takes an override file as a reason to skip the tests
RunTestsUnlessOverride ==
  /\ pc = "test"
  /\ ~args.skip_tests
  /\ IF customizations.override # NoneVal
     THEN /\ pc' = "login"
          /\ UNCHANGED <<render_vars, args, repo, config, customizations, raw,
                         dockerfile_content, environ, test_input, tmp,
                         invocations, pending, unlink_calls, registry, error,
                         result>>
     ELSE StartTests

RunTests ==
  /\ pc = "test"
  /\ ~args.skip_tests
  /\ StartTests

\* a subprocess.run call made with check=False: the exit status is ignored
ProcessExitUnchecked(wait_pc, cmd, next_pc) ==
  /\ pc = wait_pc
  /\ \E outcome \in ProcessOutcomes :
       invocations' =
         [invocations EXCEPT ![Len(invocations)].status = outcome]
  /\ pc' = next_pc
  /\ UNCHANGED <<render_vars, args, repo, config, customizations, raw,
                 dockerfile_content, environ, test_input, tmp, pending,
                 unlink_calls, registry, error, result>>

\* a variant that runs a failed command again
ProcessExitRetrying(wait_pc, cmd, next_pc) ==
  /\ pc = wait_pc
  /\ \E outcome \in ProcessOutcomes :
       /\ invocations' =
            [invocations EXCEPT ![Len(invocations)].status = outcome]
       /\ pc' = IF outcome = "ok" THEN next_pc ELSE cmd
  /\ UNCHANGED <<render_vars, args, repo, config, customizations, raw,
                 dockerfile_content, environ, test_input, tmp, pending,
                 unlink_calls, registry, error, result>>

\* the end of a blocking subprocess.run call made at wait_pc: exit status 0
\* goes on to next_pc, anything else raises inside the try block
ProcessExit(wait_pc, cmd, next_pc) ==
  /\ pc = wait_pc
  /\ \E outcome \in ProcessOutcomes :
       /\ invocations' =
            [invocations EXCEPT ![Len(invocations)].status = outcome]
       /\ IF outcome = "ok"
          THEN /\ pc' = next_pc
               /\ UNCHANGED pending
          ELSE RaiseInside(ProcessError(cmd, outcome))
  /\ UNCHANGED <<render_vars, args, repo, config, customizations, raw,
                 dockerfile_content, environ, test_input, tmp, unlink_calls,
                 registry, error, result>>

\* a variant that goes on to the login stage however the tests ended
TestExitNonFatal == ProcessExitUnchecked("test_wait", "test", "login")

\* run_command(command) of build_test_in_container returns or raises
TestExit == ProcessExit("test_wait", "test", "login")

\* a variant that hands the password over on the command line
login_argv_with_password(host, username, password) ==
  << <<"docker">>, <<"login">>, host, <<"-u">>, username, <<"-p">>,
     password >>

\* the command list docker_login hands to subprocess.run
login_argv(host, username, password) ==
  << <<"docker">>, <<"login">>, host, <<"-u">>, username,
     <<"--password-stdin">> >>

\* docker_login(host): nothing without a registry or without both
\* credentials, else docker login is started
docker_login(host) ==
  IF ~truthy(host)
  THEN /\ pc' = "build"
       /\ UNCHANGED <<environ, invocations>>
  ELSE \E u \in EnvRead("username", UsernameValues),
          p \in EnvRead("password", PasswordValues) :
         LET username == IF u = Unset THEN NoneText ELSE u
             password == IF p = Unset THEN NoneText ELSE p
         IN /\ environ' = [environ EXCEPT !.username = u, !.password = p]
            /\ IF ~truthy(username) \/ ~truthy(password)
               THEN /\ pc' = "build"
                    /\ UNCHANGED invocations
               ELSE /\ invocations' =
                         Append(invocations,
                                Invocation("login",
                                  login_argv(host, username, password),
                                  password))
                    /\ pc' = "login_wait"

\* a variant that logs in only when the image is going to be pushed
LoginUnlessNoPush ==
  /\ pc = "login"
  /\ registry' = effective_registry(args)
  /\ IF args.no_push
     THEN /\ pc' = "build"
          /\ UNCHANGED <<environ, invocations>>
     ELSE docker_login(registry')
  /\ UNCHANGED <<render_vars, args, repo, config, customizations, raw,
                 dockerfile_content, test_input, tmp, pending, unlink_calls,
                 error, result>>

\* main: registry = args.registry or extract_registry(args.image);
\* docker_login(registry)
Login ==
  /\ pc = "login"
  /\ registry' = effective_registry(args)
  /\ docker_login(registry')
  /\ UNCHANGED <<render_vars, args, repo, config, customizations, raw,
                 dockerfile_content, test_input, tmp, pending, unlink_calls,
                 error, result>>

\* subprocess.run of docker_login returns or raises
LoginExit == ProcessExit("login_wait", "login", "build")

\* the command list build_image hands to run_command
RECURSIVE build_arg_flags(_)
build_arg_flags(build_args) ==
  IF build_args = <<>> THEN <<>>
  ELSE << <<"--build-arg">>, <<Head(build_args)>> >>
       \o build_arg_flags(Tail(build_args))

build_argv(dockerfile_path, image_ref, build_args) ==
  << <<"docker">>, <<"build">>, <<"-f">>, <<dockerfile_path>>, <<"-t">>,
     image_ref >>
  \o build_arg_flags(build_args) \o << <<RepoRoot>> >>

\* main: build_image(repo_root, dockerfile_path=tmp_path, ...)
Build ==
  /\ pc = "build"
  /\ invocations' =
       Append(invocations,
              Invocation("build",
                         build_argv(TmpPath, args.image, args.build_args),
                         NoneText))
  /\ pc' = "build_wait"
  /\ UNCHANGED <<render_vars, args, repo, config, customizations, raw,
                 dockerfile_content, environ, test_input, tmp, pending,
                 unlink_calls, registry, error, result>>

\* run_command(command) of build_image returns or raises
BuildExit == ProcessExit("build_wait", "build", "push")

\* push_image(image_ref): start "docker push"
StartPush ==
  /\ invocations' =
       Append(invocations,
              Invocation("push", << <<"docker">>, <<"push">>, args.image >>,
                         NoneText))
  /\ pc' = "push_wait"
  /\ UNCHANGED <<render_vars, args, repo, config, customizations, raw,
                 dockerfile_content, environ, test_input, tmp, pending,
                 unlink_calls, registry, error, result>>

\* main pushing whatever --no-push says
PushAlways ==
  /\ pc = "push"
  /\ StartPush

\* main: if not args.no_push: push_image(args.image)
Push ==
  /\ pc = "push"
  /\ ~args.no_push
  /\ StartPush

\* main: else: print("Skipping image push (--no-push specified)")
PushSkipped ==
  /\ pc = "push"
  /\ args.no_push
  /\ pc' = "finally"
  /\ UNCHANGED <<render_vars, args, repo, config, customizations, raw,
                 dockerfile_content, environ, test_input, tmp, invocations,
                 pending, unlink_calls, registry, error, result>>

\* run_command(command) of push_image returns or raises
PushExit == ProcessExit("push_wait", "push", "finally")

\* a variant whose finally clause lets the OSError of unlink propagate
CleanupRaising ==
  /\ pc = "finally"
  /\ unlink_calls' = unlink_calls + 1
  /\ \E outcome \in {"ok", "oserror"} :
       /\ tmp' = [tmp EXCEPT !.exists = (outcome = "oserror")]
       /\ IF outcome = "oserror"
          THEN /\ pc' = "failed"
               /\ result' = "failure"
               /\ error' = Exception("OSError", "unlink", <<>>)
          ELSE IF pending = NoError
          THEN /\ pc' = "done"
               /\ result' = "success"
               /\ UNCHANGED error
          ELSE /\ pc' = "failed"
               /\ result' = "failure"
               /\ error' = pending
  /\ UNCHANGED <<render_vars, args, repo, config, customizations, raw,
                 dockerfile_content, environ, test_input, invocations,
                 pending, registry>>

\* how tmp_path.unlink(missing_ok=True) can end: the file is removed, or an
\* OSError is raised and the file stays
UnlinkOutcomes == {"ok", "oserror"}

\* main: the finally clause, then either the pending exception propagates or
\* main prints the success line and returns 0
Cleanup ==
  /\ pc = "finally"
  /\ \E outcome \in UnlinkOutcomes :
       tmp' = [tmp EXCEPT !.exists = (outcome = "oserror")]
  /\ unlink_calls' = unlink_calls + 1
  /\ IF pending = NoError
     THEN /\ pc' = "done"
          /\ result' = "success"
          /\ UNCHANGED error
     ELSE /\ pc' = "failed"
          /\ result' = "failure"
          /\ error' = pending
  /\ UNCHANGED <<render_vars, args, repo, config, customizations, raw,
                 dockerfile_content, environ, test_input, invocations,
                 pending, registry>>

Next ==
  \/ CheckRepo
  \/ Detect
  \/ Locate
  \/ LoadOverride(FileTexts)
  \/ Render(FileTexts)
  \/ CreateTemp
  \/ WriteTemp
  \/ TestsSkipped
  \/ RunTests
  \/ TestExit
  \/ Login
  \/ LoginExit
  \/ Build
  \/ BuildExit
  \/ Push
  \/ PushSkipped
  \/ PushExit
  \/ Cleanup

Spec == Init /\ [][Next]_vars

\* main() up to the end of the with block (the descriptor is prepared and
\* written), over longer repository texts
Prepare ==
  \/ CheckRepo
  \/ Detect
  \/ Locate
  \/ LoadOverride(DescriptorTexts)
  \/ Render(DescriptorTexts)
  \/ CreateTemp
  \/ WriteTemp

SpecDescriptor == Init /\ [][Prepare]_vars

\* main() with tests skipped, up to the call of docker login, over the
\* image references of RegistryRunArgs and repositories without
\* customization files
InitRegistry == InitWith(RegistryRunArgs, SUBSET Markers)

ResolveRegistry ==
  \/ CheckRepo
  \/ Detect
  \/ Locate
  \/ Render(FileTexts)
  \/ CreateTemp
  \/ WriteTemp
  \/ TestsSkipped
  \/ Login

SpecRegistry == InitRegistry /\ [][ResolveRegistry]_vars

\* main() is one thread that blocks in subprocess.run: it takes its next
\* step whenever it has one, and every invoked process ends
MainSteps ==
  \/ CheckRepo
  \/ Detect
  \/ Locate
  \/ LoadOverride(FileTexts)
  \/ Render(FileTexts)
  \/ CreateTemp
  \/ WriteTemp
  \/ TestsSkipped
  \/ RunTests
  \/ Login
  \/ Build
  \/ Push
  \/ PushSkipped
  \/ Cleanup

ProcessesEnd == TestExit \/ LoginExit \/ BuildExit \/ PushExit

SpecLive == Spec /\ WF_vars(MainSteps) /\ WF_vars(ProcessesEnd)

\* ------------------------------------------------- manifest renderer ----
\* int(port) of an item of deployment.ports: the number, or the exception
int_of(item) ==
  CASE item.t \in {"int", "numeric_str"} -> [exc |-> NoneVal, v |-> item.v]
    [] item.t = "word" -> [exc |-> "ValueError", v |-> 0]
    [] item.t = "null" -> [exc |-> "TypeError", v |-> 0]
    [] item.t = "inf"  -> [exc |-> "OverflowError", v |-> 0]

\* the exception raised by {int(port) for port in raw_ports}: that of the
\* first item int() refuses, None when there is none
RECURSIVE first_exception(_)
first_exception(items) ==
  IF items = <<>> THEN NoneVal
  ELSE IF int_of(Head(items)).exc # NoneVal THEN int_of(Head(items)).exc
  ELSE first_exception(Tail(items))

\* sorted(numbers) of a set of integers
RECURSIVE sorted(_)
sorted(numbers) ==
  IF numbers = {} THEN <<>>
  ELSE LET least == CHOOSE n \in numbers : \A m \in numbers : n <= m
       IN <<least>> \o sorted(numbers \ {least})

\* a manifest, by the fields that differ between runs
Manifest(kind) ==
  [kind |-> kind, replicas |-> 0, ports |-> <<>>, type |-> NoneVal,
   node_ports |-> <<>>, backend_port |-> 0, tls |-> NoneText]

ensure_namespace_manifest == Manifest("Namespace")

build_deployment_manifest(count, port_list) ==
  [Manifest("Deployment") EXCEPT !.replicas = count, !.ports = port_list]

\* build_service_manifest with ports; nodePort is nodeport_base + index
build_service_manifest(port_list, type) ==
  [Manifest("Service") EXCEPT
     !.ports = port_list,
     !.type = type,
     !.node_ports = IF type = "NodePort"
                    THEN [i \in 1..Len(port_list) |-> NodeportBase + (i - 1)]
                    ELSE <<>>]

\* build_ingress_manifest with ports
build_ingress_manifest(port_list, tls_secret) ==
  [Manifest("Ingress") EXCEPT
     !.backend_port = port_list[1],
     !.tls = IF truthy(tls_secret) THEN tls_secret ELSE NoneText]

build_role_manifest == Manifest("Role")

build_role_binding_manifest == Manifest("RoleBinding")

\* an exception leaves the renderer: a RenderError raised in render() ends
\* main() with SystemExit("ERROR: ..."), any other exception with a
\* traceback; either way the process ends in failure
RenderRaise(type, message) ==
  /\ render_pc' = "failed"
  /\ render_error' = [type |-> type, message |-> message]

\* main: parse_service_account(args.deployer_service_account)
ParseServiceAccount ==
  /\ render_pc = "start"
  /\ LET value == render_args.deployer_service_account
         namespace == first_segment(value)
         name == SubSeq(value, Len(namespace) + 2, Len(value))
     IN IF ~contains(value, "/")
        THEN RenderRaise("RenderError", "service_account_form")
        ELSE IF namespace = <<>> \/ name = <<>>
        THEN RenderRaise("RenderError", "service_account_invalid")
        ELSE /\ render_pc' = "load"
             /\ UNCHANGED render_error
  /\ UNCHANGED <<main_vars, render_args, root, deployment_cfg, replicas,
                 ports, manifests, emitted>>

\* render: config = load_config(config_path)
LoadConfig ==
  /\ render_pc = "load"
  /\ \E data \in RootValues :
       /\ root' = data
       /\ CASE data = "missing" ->
                 RenderRaise("RenderError", "config_not_found")
            [] data = "yaml_error" ->
                 RenderRaise("YAMLError", "config_not_yaml")
            [] data = "not_mapping" ->
                 RenderRaise("RenderError", "root_not_mapping")
            [] OTHER ->
                 /\ render_pc' = "extract"
                 /\ UNCHANGED render_error
  /\ UNCHANGED <<main_vars, render_args, deployment_cfg, replicas, ports,
                 manifests, emitted>>

\* render: deployment_cfg = extract_deployment(config); an empty file is the
\* mapping {} and has no deployment key
ExtractDeployment ==
  /\ render_pc = "extract"
  /\ \E deployment \in (IF root = "empty" THEN {NoDeployment}
                        ELSE DeploymentValues) :
       CASE deployment.t = "absent" ->
              /\ RenderRaise("RenderError", "deployment_missing")
              /\ UNCHANGED deployment_cfg
         [] deployment.t = "not_mapping" ->
              /\ RenderRaise("RenderError", "deployment_not_mapping")
              /\ UNCHANGED deployment_cfg
         [] OTHER ->
              /\ deployment_cfg' = deployment
              /\ render_pc' = "parse"
              /\ UNCHANGED render_error
  /\ UNCHANGED <<main_vars, render_args, root, replicas, ports, manifests,
                 emitted>>

\* render: replicas = int(...); raw_ports = ... or []; the isinstance test;
\* ports = sorted({int(port) for port in raw_ports})
ParseDeployment ==
  /\ render_pc = "parse"
  /\ LET raw_ports == deployment_cfg.ports
         failure == first_exception(raw_ports.items)
     IN IF deployment_cfg.replicas = "word"
        THEN /\ RenderRaise("ValueError", "replicas_not_numeric")
             /\ UNCHANGED <<replicas, ports>>
        ELSE /\ replicas' = (IF deployment_cfg.replicas = "absent" THEN 1
                             ELSE 2)
             /\ IF raw_ports.t = "str"
                THEN /\ RenderRaise("RenderError", "ports_not_list")
                     /\ UNCHANGED ports
                ELSE IF failure \in {"TypeError", "ValueError"}
                THEN /\ RenderRaise("RenderError", "ports_not_numeric")
                     /\ UNCHANGED ports
                ELSE IF failure = "OverflowError"
                THEN /\ RenderRaise("OverflowError", "ports_not_numeric")
                     /\ UNCHANGED ports
                ELSE /\ ports' =
                          sorted({int_of(raw_ports.items[i]).v :
                                    i \in 1..Len(raw_ports.items)})
                     /\ render_pc' = "build"
                     /\ UNCHANGED render_error
  /\ UNCHANGED <<main_vars, render_args, root, deployment_cfg, manifests,
                 emitted>>

\* the manifests render collects before the ingress, with their filenames
manifests_before_ingress ==
  LET service_type == IF render_args.expose_mode = "nodeport"
                      THEN "NodePort"
                      ELSE render_args.service_type
  IN << [file |-> "namespace.yaml", manifest |-> ensure_namespace_manifest],
        [file |-> "deployment.yaml",
         manifest |-> build_deployment_manifest(replicas, ports)] >>
     \o (IF ports # <<>>
         THEN << [file |-> "service.yaml",
                  manifest |-> build_service_manifest(ports, service_type)] >>
         ELSE <<>>)

manifests_after_ingress ==
  << [file |-> "role.yaml", manifest |-> build_role_manifest],
     [file |-> "rolebinding.yaml",
      manifest |-> build_role_binding_manifest] >>

\* a variant that writes each manifest as soon as it is built, so that the
\* namespace, the deployment and the service are out before the ingress is
\* validated
BuildManifestsStreaming ==
  /\ render_pc = "build"
  /\ IF render_args.expose_mode = "ingress"
     THEN IF ~truthy(render_args.domain)
          THEN /\ RenderRaise("RenderError", "domain_missing")
               /\ emitted' = [i \in 1..Len(manifests_before_ingress) |->
                                manifests_before_ingress[i].file]
               /\ UNCHANGED manifests
          ELSE IF ports = <<>>
          THEN /\ RenderRaise("RenderError", "ingress_without_ports")
               /\ emitted' = [i \in 1..Len(manifests_before_ingress) |->
                                manifests_before_ingress[i].file]
               /\ UNCHANGED manifests
          ELSE /\ manifests' =
                    manifests_before_ingress
                      \o << [file |-> "ingress.yaml",
                             manifest |->
                               build_ingress_manifest(
                                 ports, render_args.tls_secret)] >>
                      \o manifests_after_ingress
               /\ render_pc' = "write"
               /\ UNCHANGED <<render_error, emitted>>
     ELSE /\ manifests' = manifests_before_ingress \o manifests_after_ingress
          /\ render_pc' = "write"
          /\ UNCHANGED <<render_error, emitted>>
  /\ UNCHANGED <<main_vars, render_args, root, deployment_cfg, replicas,
                 ports>>

\* render: the list manifests is built; the ingress is validated while the
\* list is built, before anything is written
BuildManifests ==
  /\ render_pc = "build"
  /\ IF render_args.expose_mode = "ingress"
     THEN IF ~truthy(render_args.domain)
          THEN /\ RenderRaise("RenderError", "domain_missing")
               /\ UNCHANGED manifests
          ELSE IF ports = <<>>
          THEN /\ RenderRaise("RenderError", "ingress_without_ports")
               /\ UNCHANGED manifests
          ELSE /\ manifests' =
                    manifests_before_ingress
                      \o << [file |-> "ingress.yaml",
                             manifest |->
                               build_ingress_manifest(
                                 ports, render_args.tls_secret)] >>
                      \o manifests_after_ingress
               /\ render_pc' = "write"
               /\ UNCHANGED render_error
     ELSE /\ manifests' = manifests_before_ingress \o manifests_after_ingress
          /\ render_pc' = "write"
          /\ UNCHANGED render_error
  /\ UNCHANGED <<main_vars, render_args, root, deployment_cfg, replicas,
                 ports, emitted>>

\* how write_manifest can end: the file is written (or the document
\* printed), or mkdir / write_text / print raises OSError
WriteOutcomes == {"ok", "oserror"}

\* render: one turn of "for filename, manifest in manifests:
\* write_manifest(...)"; after the last turn render returns and main
\* returns 0
WriteManifest ==
  /\ render_pc = "write"
  /\ LET turn == Len(emitted) + 1 IN
     \E outcome \in WriteOutcomes :
       IF outcome = "ok"
       THEN /\ emitted' = Append(emitted, manifests[turn].file)
            /\ render_pc' = (IF turn = Len(manifests) THEN "done"
                             ELSE "write")
            /\ UNCHANGED render_error
       ELSE /\ RenderRaise("OSError", "write_failed")
            /\ UNCHANGED emitted
  /\ UNCHANGED <<main_vars, render_args, root, deployment_cfg, replicas,
                 ports, manifests>>

\* one run of the renderer over every command line of RenderArgs; the
\* orchestrator is a program of its own and is not run
DefaultArgs ==
  [image |-> <<"a", ":", "1">>, registry |-> NoneText, skip_tests |-> FALSE,
   no_push |-> FALSE, build_args |-> <<"KEY=value">>]

InitRender ==
  /\ MainStart({DefaultArgs}, {{}})
  /\ RenderStart(RenderArgs)

NextRender ==
  \/ ParseServiceAccount
  \/ LoadConfig
  \/ ExtractDeployment
  \/ ParseDeployment
  \/ BuildManifests
  \/ WriteManifest

SpecRender == InitRender /\ [][NextRender]_vars

\* ------------------------------------------------------------ claims ----
\* main() has returned or raised
Ended == pc \in {"done", "failed"}

\* detect_language has been called
DetectionDone == pc \notin {"start", "detect"}

\* the technologies whose detection predicate holds in the repository
Matching == {l \in LanguageSet : Marker(l) \in repo}

\* the technology names an error message lists, separators left out
Named(detail) == {detail[i] : i \in 1..Len(detail)} \ {", "}

\* C1: once a run that created the temporary artifact has ended, in success
\* or in failure, the artifact's path does not exist.
C1_ArtifactGoneAtEnd ==
  (Ended /\ tmp.created) => ~tmp.exists

\* C2: on every exit path of a run that created the temporary artifact
\* (after success, after a failed write, test, login, build or push), the
\* deletion of the artifact has run exactly once.
C2_CleanupExactlyOnce ==
  (Ended /\ tmp.created) => unlink_calls = 1

\* C3: when exactly one detection predicate holds, detection yields the
\* profile of that technology and raises no detection error.
C3_SingleMatchDetected ==
  \A l \in LanguageSet :
    (Matching = {l} /\ DetectionDone)
      => /\ config = l
         /\ error.kind \notin {"no_language", "multiple_languages"}

C3_Witness ==
  /\ Matching = {"befunge"}
  /\ pc = "locate"
  /\ config = "befunge"

\* C4: when zero or at least two detection predicates hold, detection raises
\* an error and yields no profile; with at least two, the error lists
\* exactly the matching technologies.
C4_NoOrManyMatchesFail ==
  (Cardinality(Matching) # 1 /\ DetectionDone /\ error.kind # "repo_missing")
    => /\ pc = "failed"
       /\ config = NoneVal
       /\ error.type = "OrchestratorError"
       /\ (Matching = {} => error.kind = "no_language")
       /\ (Matching # {}
             => /\ error.kind = "multiple_languages"
                /\ Named(error.detail) = Matching)

C4_Witness ==
  /\ Matching = {"java", "python"}
  /\ pc = "failed"
  /\ error.detail = <<"java", ", ", "python">>

\* C5: when detection fails the run ends in failure, the temporary artifact
\* is never created and no external process is invoked.
C5_DetectionFailureStopsRun ==
  (DetectionDone /\ Cardinality(Matching) # 1)
    => /\ pc = "failed"
       /\ result = "failure"
       /\ ~tmp.created
       /\ ~tmp.exists
       /\ invocations = <<>>
       /\ unlink_calls = 0

C5_Witness ==
  /\ pc = "failed"
  /\ error.kind = "multiple_languages"
  /\ OverridePath \in repo
  /\ invocations = <<>>

\* the override file exists / only the append file exists
OverridePresent == customizations.override # NoneVal
AppendOnly ==
  /\ customizations.override = NoneVal
  /\ customizations.append # NoneVal

\* C6: with an override file present, the text written to the temporary
\* artifact (the file the build is pointed at) is the override file's raw
\* content, character for character.
C6_OverrideVerbatim ==
  (OverridePresent /\ tmp.written) => tmp.content = raw.override

\* each line followed by its line terminator
RECURSIVE Lines(_)
Lines(items) ==
  IF items = <<>> THEN <<>>
  ELSE Head(items) \o <<LF>> \o Lines(Tail(items))

\* the descriptor without customizations: header, FROM, WORKDIR and the
\* profile's instructions, for the base image the environment selects
BaseContent ==
  Lines(<< <<"# Generated by Whanos orchestrator. Do not edit.">>,
           <<"FROM ">> \o (IF environ.base_image = Unset
                           THEN default_base_image(config)
                           ELSE environ.base_image),
           <<"WORKDIR /app">> >>
        \o dockerfile_instructions(config, repo))

\* the ways a text can stand whole between two marker lines: on lines of
\* its own, its last line ended by its own terminator or by an added one
Between(text) ==
  {text \o <<LF>>}
    \cup (IF text # <<>> /\ text[Len(text)] = LF THEN {text} ELSE {})

IsTrimmed(text, core) ==
  \E i \in 1..(Len(text) + 1), j \in 0..Len(text) :
    /\ core = SubSeq(text, i, j)
    /\ \A k \in 1..Len(text) : (k < i \/ k > j) => text[k] \in Whitespace
    /\ core # <<>> => (core[1] \notin Whitespace
                         /\ core[Len(core)] \notin Whitespace)

Calls(cmd) == {i \in 1..Len(invocations) : invocations[i].cmd = cmd}

\* C8: with --skip-tests no test process is ever invoked, whatever the
\* technology and even where its test command resolves.
C8_SkipTestsRunsNoTest ==
  args.skip_tests
    => \A i \in 1..Len(invocations) :
         /\ invocations[i].cmd # "test"
         /\ invocations[i].argv[2] # <<"run">>

C8_Witness ==
  /\ args.skip_tests
  /\ config = "java"
  /\ truthy(test_command(config, {}))
  /\ pc = "done"

\* C9: with --no-push no push is ever invoked; a run that wrote the
\* descriptor and did not fail in the test or login stage has invoked the
\* build once, and ends in success when that build succeeded.
C9_NoPushStillBuilds ==
  args.no_push
    => /\ Calls("push") = {}
       /\ (Ended /\ tmp.written
             /\ error.kind \notin {"test", "test_command", "login"})
            => /\ Cardinality(Calls("build")) = 1
               /\ \A i \in Calls("build") :
                    invocations[i].status = "ok"
                      => (pc = "done" /\ result = "success")

C9_Witness ==
  /\ args.no_push
  /\ pc = "done"
  /\ result = "success"
  /\ Cardinality(Calls("build")) = 1
  /\ Calls("test") # {}

\* C10: a run ends in success only if detection matched one technology, the
\* descriptor was written, every invoked process (test, login, build, push)
\* exited with status 0, the build was invoked, and the push was invoked
\* unless skipped; a run with a failed stage ends in failure.
C10_SuccessOnlyIfAllStagesSucceeded ==
  /\ result = "success"
       => /\ pc = "done"
          /\ Cardinality(Matching) = 1
          /\ config \in Matching
          /\ tmp.written
          /\ \A i \in 1..Len(invocations) : invocations[i].status = "ok"
          /\ Cardinality(Calls("build")) = 1
          /\ (~args.no_push => Cardinality(Calls("push")) = 1)
          /\ pending = NoError
          /\ error = NoError
  /\ (Ended /\ (error # NoError \/ pending # NoError)) => result = "failure"

C10_Witness ==
  /\ result = "success"
  /\ Len(invocations) = 4
  /\ Calls("test") # {}
  /\ Calls("login") # {}
  /\ Calls("push") # {}

\* an invoked process ended in failure: non-zero exit status, or it could
\* not be started
Failed(i) == invocations[i].status \in {"nonzero", "oserror"}

\* C11: a test, login, build or push process that fails is the last process
\* of the run: no later stage is invoked, the run heads for failure, and the
\* deletion of the temporary artifact still runs, once.
C11_FailedStageAbortsRun ==
  \A i \in 1..Len(invocations) :
    Failed(i)
      => /\ i = Len(invocations)
         /\ pc \in {"finally", "failed"}
         /\ result # "success"
         /\ (invocations[i].cmd = "test"
               => Calls("login") \cup Calls("build") \cup Calls("push") = {})
         /\ (invocations[i].cmd = "login"
               => Calls("build") \cup Calls("push") = {})
         /\ (invocations[i].cmd = "build" => Calls("push") = {})
         /\ (Ended => (result = "failure" /\ unlink_calls = 1))

C11_Witness ==
  /\ pc = "failed"
  /\ Len(invocations) = 1
  /\ invocations[1].cmd = "test"
  /\ invocations[1].status = "nonzero"
  /\ unlink_calls = 1

\* the image the FROM line of the generated descriptor names: the atoms
\* between "FROM " and the end of the line
FromImage ==
  IF dockerfile_content[4] = LF THEN <<>> ELSE <<dockerfile_content[4]>>

\* C12: the base image the generated descriptor starts from is the value of
\* the profile's environment variable when that variable is set and
\* non-empty, and the profile's default when it is unset or set to the
\* empty string.
C12_BaseImageOrDefault ==
  (tmp.written /\ ~OverridePresent)
    => FromImage = (IF environ.base_image \in {Unset, <<>>}
                    THEN default_base_image(config)
                    ELSE environ.base_image)

\* the run is past the login stage of main
PastLogin ==
  \/ pc \in {"login_wait", "build"}
  \/ Calls("login") # {}
  \/ Calls("build") # {}

\* a credential variable was read and holds a non-empty value
Present(value) == value \notin {Unread, Unset, <<>>}

\* the registry main works with, said without extract_registry: --registry
\* when given (non-empty), else the part of the image reference before its
\* first "/" when there is a "/" and that part holds "." or ":", else none
RegistryOf(a) ==
  IF a.registry # NoneText /\ a.registry # <<>> THEN a.registry
  ELSE IF \E k \in 1..Len(a.image) :
            /\ a.image[k] = "/"
            /\ \A j \in 1..(k - 1) : a.image[j] # "/"
            /\ \E j \in 1..(k - 1) : a.image[j] \in {".", ":"}
  THEN SubSeq(a.image, 1,
              (CHOOSE k \in 1..Len(a.image) :
                 /\ a.image[k] = "/"
                 /\ \A j \in 1..(k - 1) : a.image[j] # "/") - 1)
  ELSE NoneText

\* C13: in a run that reaches the login stage, docker login is invoked
\* exactly when there is a registry and both credential variables hold a
\* non-empty value; without a registry, or with a credential missing, no
\* login is invoked and the run goes on to the build; a login that fails
\* ends the run in failure before any build.
C13_LoginIffRegistryAndCredentials ==
  /\ Calls("login") # {} => PastLogin
  /\ PastLogin
       => /\ (Calls("login") # {}
                <=> /\ RegistryOf(args) # NoneText
                    /\ Present(environ.username)
                    /\ Present(environ.password))
          /\ Cardinality(Calls("login")) <= 1
          /\ (Calls("login") = {} => (pc = "build" \/ Calls("build") # {}))
  /\ \A i \in Calls("login") :
       Failed(i) => /\ Calls("build") = {}
                    /\ pc \in {"finally", "failed"}
                    /\ (Ended => result = "failure")

C13_Witness ==
  /\ pc = "build_wait"
  /\ args.registry = NoneText
  /\ Calls("login") = {1}
  /\ invocations[1].argv[3] = <<"r", ".", "i">>

\* C14: the password reaches docker login on its standard input only: it is
\* the input of the login process and is no element of the command line of
\* the login process or of any other process.
C14_PasswordOnlyOnStdin ==
  \A i \in 1..Len(invocations) :
    /\ \A k \in 1..Len(invocations[i].argv) :
         Present(environ.password)
           => invocations[i].argv[k] # environ.password
    /\ invocations[i].stdin = (IF invocations[i].cmd = "login"
                               THEN environ.password
                               ELSE NoneText)

C14_Witness ==
  /\ pc = "done"
  /\ Calls("login") # {}
  /\ \A i \in Calls("login") : invocations[i].stdin = <<"secret">>
  /\ Calls("push") # {}

\* the place of a stage in the order test, login, build, push
StageRank(cmd) ==
  CASE cmd = "test" -> 1
    [] cmd = "login" -> 2
    [] cmd = "build" -> 3
    [] cmd = "push" -> 4

\* C15: the processes a run invokes are, in order, some of test, login,
\* build, push, each at most once, and a process is started only after
\* every earlier one has ended (successfully).
C15_StagesInOrderOneAtATime ==
  /\ \A i, j \in 1..Len(invocations) :
       i < j => StageRank(invocations[i].cmd) < StageRank(invocations[j].cmd)
  /\ \A i \in 1..Len(invocations) :
       /\ invocations[i].cmd \in {"test", "login", "build", "push"}
       /\ i < Len(invocations) => invocations[i].status = "ok"

C15_Witness ==
  /\ Len(invocations) = 4
  /\ pc = "push_wait"
  /\ invocations[4].status = "running"

\* C16: whether the deletion of the temporary artifact succeeds or raises
\* OSError, the run ends the same way: in success exactly when nothing was
\* raised before the deletion, else with the exception that was pending;
\* a failed deletion is never the reported error.
C16_UnlinkErrorSwallowed ==
  (Ended /\ unlink_calls > 0)
    => /\ result = (IF pending = NoError THEN "success" ELSE "failure")
       /\ error = pending
       /\ error.kind # "unlink"
       /\ pc = (IF pending = NoError THEN "done" ELSE "failed")

C16_Witness ==
  /\ pc = "done"
  /\ result = "success"
  /\ unlink_calls = 1
  /\ tmp.exists

C16_WitnessFailure ==
  /\ pc = "failed"
  /\ error.kind = "build"
  /\ unlink_calls = 1
  /\ tmp.exists

\* C17: the registry main works with is --registry when given; else the
\* text of the image reference before its first "/" when the reference
\* holds a "/" and that text holds "." or ":"; else none.
C17_EffectiveRegistry ==
  registry # Unread => registry = RegistryOf(args)

C17_Witness ==
  /\ args.registry = NoneText
  /\ args.image = <<"a", ":", "/">>
  /\ registry = <<"a", ":">>

C17_WitnessNone ==
  /\ args.registry = NoneText
  /\ args.image = <<"a", "/", ":">>
  /\ registry = NoneText
  /\ pc = "build"

\* the test stage of main is over
TestStageDone == tmp.written /\ pc # "test"

\* the profile has no test command in this repository, by the cases of C18
NoTestCommandCase ==
  \/ config \in {"c", "befunge"}
  \/ (config = "javascript" /\ "test_script" \notin test_input)
  \/ (config = "python" /\ test_input = {})

\* C18: without --skip-tests, when the profile resolves no test command (c
\* and befunge always; javascript with no "test" script or with a
\* package.json that is missing, unreadable or malformed; python with no
\* tests/, test/ or pytest.ini), no test process is invoked, nothing is
\* raised by the test stage and the run goes on to login and build.
C18_NoTestCommandContinues ==
  (~args.skip_tests /\ TestStageDone /\ NoTestCommandCase)
    => /\ Calls("test") = {}
       /\ pending.kind # "test_command"
       /\ error.kind # "test_command"
       /\ (pc = "login" \/ PastLogin)

\* the text ends with the given suffix
EndsWith(text, suffix) ==
  /\ Len(suffix) <= Len(text)
  /\ SubSeq(text, Len(text) - Len(suffix) + 1, Len(text)) = suffix

\* C19: with an append file and no override, whatever the append file holds
\* (nothing and whitespace only included), the descriptor ends with a blank
\* line, the begin marker line, the trimmed append text, and the end marker
\* line.
C19_AppendBlockAlwaysEmitted ==
  (AppendOnly /\ tmp.written)
    => \E core \in DescriptorTexts :
         /\ IsTrimmed(read_text(raw.append), core)
         /\ EndsWith(tmp.content,
                     <<LF, LF>> \o BeginMarker \o <<LF>> \o core \o <<LF>>
                       \o EndMarker \o <<LF>>)

\* where main is while the process of a stage runs
WaitPc(cmd) ==
  CASE cmd = "test" -> "test_wait"
    [] cmd = "login" -> "login_wait"
    [] cmd = "build" -> "build_wait"
    [] cmd = "push" -> "push_wait"

\* while an invoked process has not ended the run stays at its stage: the
\* process is the last one invoked, the run has not ended and the
\* temporary artifact has not been deleted
StaysAtStage ==
  \A i \in 1..Len(invocations) :
    invocations[i].status = "running"
      => /\ i = Len(invocations)
         /\ pc = WaitPc(invocations[i].cmd)
         /\ ~Ended
         /\ unlink_calls = 0
         /\ tmp.exists

\* C20: when every invoked process ends, the run ends, and a run that has
\* ended and had created the temporary artifact has run its deletion;
\* while an invoked process has not ended, the run stays at that stage, no
\* later stage is invoked and the artifact is not deleted.
C20_TerminatesCleanedOrStalls ==
  /\ <>Ended
  /\ []((Ended /\ tmp.created) => unlink_calls > 0)
  /\ []StaysAtStage

\* the instructions are one or more, the last one is a CMD instruction and
\* no other one is
OneEntryPointLast(steps) ==
  /\ steps # <<>>
  /\ \A i \in 1..Len(steps) : (steps[i][1] = "CMD") <=> (i = Len(steps))

\* where a CMD instruction starts in a descriptor: the keyword at the start
\* of a line
EntryPoints(text) ==
  {k \in 1..Len(text) : text[k] = "CMD" /\ (k = 1 \/ text[k - 1] = LF)}

\* C21: for every profile and every repository, the profile's instructions
\* hold exactly one CMD instruction and it is the last one; a descriptor
\* generated with neither override nor append file holds exactly one CMD
\* instruction.
C21_OneEntryPoint ==
  /\ \A l \in LanguageSet : OneEntryPointLast(dockerfile_instructions(l, repo))
  /\ (tmp.written /\ ~OverridePresent /\ customizations.append = NoneVal)
       => Cardinality(EntryPoints(tmp.content)) = 1

C21_Witness ==
  /\ config = "python"
  /\ tmp.written
  /\ customizations = [override |-> NoneVal, append |-> NoneVal]
  /\ EntryPoints(tmp.content) # {}

C21_WitnessNoRequirements ==
  /\ config = "c"
  /\ "requirements.txt" \notin repo
  /\ tmp.written

\* the descriptor is being prepared or has just been written: main is not
\* past the with block
Preparing == pc \in {"content", "mktemp", "write", "test"}

\* C22: with an override file, the append file is never read (so a read
\* error of the append file never fails the run), the base-image variable
\* is not read while the descriptor is prepared, and the descriptor is the
\* override file's text, nothing generated from the profile.
C22_OverrideConsultsNothingElse ==
  OverridePresent
    => /\ raw.append = NoneText
       /\ error.kind # "read_append"
       /\ (Preparing => environ.base_image = Unread)
       /\ dockerfile_content \in {NoneText, read_text(raw.override)}
       /\ (tmp.written => tmp.content = read_text(raw.override))

C22_Witness ==
  /\ OverridePath \in repo
  /\ AppendPath \in repo
  /\ tmp.written
  /\ pc = "test"

\* the command the profile's test stage runs, said without test_command
ProfileTestCommand ==
  CASE config = "java" -> <<"mvn", "test">>
    [] config = "javascript" /\ test_input = {"test_script"} ->
         <<"npm", "test", "--", "--watch=false">>
    [] config = "python" /\ test_input # {} -> <<"python", "-m", "pytest">>
    [] OTHER -> <<>>

\* C23: an override file does not replace detection: a repository with an
\* override file and zero or several markers fails at detection, nothing is
\* created and no process is invoked; and with an override file the test
\* stage still invokes the detected profile's test command, in the base
\* image resolved for the profile.
C23_OverrideKeepsDetectionAndTests ==
  /\ (OverridePath \in repo /\ DetectionDone /\ Cardinality(Matching) # 1)
       => /\ pc = "failed"
          /\ error.kind \in {"no_language", "multiple_languages"}
          /\ ~tmp.created
          /\ invocations = <<>>
  /\ (OverridePresent /\ ~args.skip_tests /\ TestStageDone
        /\ ProfileTestCommand # <<>>)
       => /\ Calls("test") = {1}
          /\ invocations[1].argv[2] = <<"run">>
          /\ invocations[1].argv[8] =
               (IF environ.base_image = Unset
                THEN default_base_image(config)
                ELSE environ.base_image)
          /\ SubSeq(invocations[1].argv, 9, Len(invocations[1].argv))
               = [k \in 1..Len(ProfileTestCommand)
                    |-> <<ProfileTestCommand[k]>>]

C23_Witness ==
  /\ OverridePresent
  /\ config = "java"
  /\ pc = "test_wait"
  /\ invocations[1].argv[8] = <<"whanos-java:latest">>

C23_WitnessUndetected ==
  /\ repo = {OverridePath}
  /\ pc = "failed"

\* C24: with --no-push, docker login is still invoked in every run that
\* reaches the login stage with a registry and both credentials non-empty,
\* and a login that fails ends the run in failure with no build invoked.
C24_LoginDespiteNoPush ==
  args.no_push
    => /\ (PastLogin /\ RegistryOf(args) # NoneText
             /\ Present(environ.username) /\ Present(environ.password))
            => Cardinality(Calls("login")) = 1
       /\ (PastLogin /\ RegistryOf(args) # NoneText /\ Calls("login") = {})
            => (environ.username # Unread /\ environ.password # Unread)
       /\ \A i \in Calls("login") :
            Failed(i) => /\ Calls("build") = {}
                         /\ pc \in {"finally", "failed"}
                         /\ (Ended => result = "failure")

C24_Witness ==
  /\ args.no_push
  /\ pc = "failed"
  /\ error.kind = "login"
  /\ Calls("build") = {}
  /\ unlink_calls = 1

\* the filenames a successful run emits, by the rule of C25: namespace and
\* deployment, a service when there are ports, an ingress in ingress mode,
\* role and role binding
ExpectedFiles ==
  <<"namespace.yaml", "deployment.yaml">>
    \o (IF ports # <<>> THEN <<"service.yaml">> ELSE <<>>)
    \o (IF render_args.expose_mode = "ingress" THEN <<"ingress.yaml">>
        ELSE <<>>)
    \o <<"role.yaml", "rolebinding.yaml">>

\* the kind of manifest each filename holds
KindOf(file) ==
  CASE file = "namespace.yaml"   -> "Namespace"
    [] file = "deployment.yaml"  -> "Deployment"
    [] file = "service.yaml"     -> "Service"
    [] file = "ingress.yaml"     -> "Ingress"
    [] file = "role.yaml"        -> "Role"
    [] file = "rolebinding.yaml" -> "RoleBinding"

\* whanos.yml and the command line pass every validation of render
ValidInput ==
  /\ root = "mapping"
  /\ deployment_cfg.t = "mapping"
  /\ deployment_cfg.ports.t # "str"
  /\ \A i \in 1..Len(deployment_cfg.ports.items) :
       deployment_cfg.ports.items[i].t \in {"int", "numeric_str"}
  /\ render_args.expose_mode = "ingress"
       => /\ render_args.domain \notin {NoneText, <<>>}
          /\ deployment_cfg.ports.t = "list"
          /\ deployment_cfg.ports.items # <<>>

\* C25: when the renderer fails with a RenderError nothing has been written
\* or printed; a run writes and succeeds only on input that passes every
\* validation, and a successful run has emitted, in this order, namespace,
\* deployment, a service exactly when the port list is not empty, an
\* ingress exactly when the exposure mode is ingress, role and role binding.
C25_RenderAllOrNothing ==
  /\ render_error.type = "RenderError" => emitted = <<>>
  /\ (render_pc \in {"write", "done"}) => ValidInput
  /\ root \in {"missing", "not_mapping"}
       => /\ render_pc = "failed"
          /\ render_error.type = "RenderError"
  /\ render_error.message \in {"domain_missing", "ingress_without_ports"}
       => /\ render_args.expose_mode = "ingress"
          /\ manifests = <<>>
  /\ render_pc = "done"
       => /\ emitted = ExpectedFiles
          /\ Len(manifests) = Len(emitted)
          /\ \A i \in 1..Len(manifests) :
               /\ manifests[i].file = emitted[i]
               /\ manifests[i].manifest.kind = KindOf(emitted[i])

C25_Witness ==
  /\ render_pc = "done"
  /\ render_args.expose_mode = "ingress"
  /\ ports = <<80, 443>>
  /\ Len(emitted) = 6

C25_WitnessRejected ==
  /\ render_pc = "failed"
  /\ render_error.message = "ingress_without_ports"
  /\ emitted = <<>>

C25_WitnessNoService ==
  /\ render_pc = "done"
  /\ emitted = <<"namespace.yaml", "deployment.yaml", "role.yaml",
                 "rolebinding.yaml">>
====
